---- MODULE Spec2Model ----
(***************************************************************************)
(* Model of the FiveSimClient of src/src/client.ts and the error hierarchy *)
(* of src/src/errors.ts.                                                   *)
(*                                                                         *)
(* Strings are sequences of one-character strings, so that concatenation,  *)
(* toLowerCase, includes, number formatting and URLSearchParams encoding   *)
(* are computed character by character.  JavaScript values are tagged      *)
(* records: [t |-> "undefined"], [t |-> "null"], [t |-> "string", s |-> _],*)
(* [t |-> "number", n |-> _] and [t |-> "object", message |-> _].          *)
(***************************************************************************)
EXTENDS Integers, Sequences, FiniteSets, TLC

\* ------------------------------------------------------------------ bounds

\* Longest message text of a response body or of a transport error.
MaxMsgLen == 2
\* Longest caller-supplied string argument (country, operator, product, ...).
MaxArgLen == 1
\* Largest caller-supplied number (order id, limit, offset).
MaxNum == 1
\* Longest apiKey of a configuration.
MaxKeyLen == 1
\* Number of call slots of one client instance.
MaxCalls == 2
\* Most SMS messages in an Order of a response.
MaxSms == 1

\* ------------------------------------------------------- JavaScript values

Undefined == [t |-> "undefined"]
Null == [t |-> "null"]
Str(s) == [t |-> "string", s |-> s]
Num(n) == [t |-> "number", n |-> n]
Obj(m) == [t |-> "object", message |-> m]

IsString(v) == v.t = "string"

\* JavaScript truthiness of a value (the operand of ||, ?: and if).
Truthy(v) ==
    CASE v.t = "undefined" -> FALSE
      [] v.t = "null" -> FALSE
      [] v.t = "string" -> v.s # <<>>
      [] v.t = "number" -> v.n # 0
      [] OTHER -> TRUE

\* a || b
Or(a, b) == IF Truthy(a) THEN a ELSE b

\* data?.message : the message property of a body, undefined on null/undefined
\* and on values without that property.
MessageOf(data) == IF data.t = "object" THEN data.message ELSE Undefined

\* ----------------------------------------------------------------- strings

\* All sequences over alphabet A of length at most n.
RECURSIVE Texts(_, _)
Texts(A, n) ==
    IF n = 0 THEN {<<>>}
    ELSE LET shorter == Texts(A, n - 1)
         IN shorter \cup {Append(s, ch) : s \in shorter, ch \in A}

\* String.prototype.toLowerCase on one character.
LowerChar(ch) ==
    CASE ch = "N" -> "n"
      [] ch = "O" -> "o"
      [] ch = "T" -> "t"
      [] ch = "A" -> "a"
      [] OTHER -> ch

\* String.prototype.toLowerCase
ToLowerCase(s) == [i \in 1..Len(s) |-> LowerChar(s[i])]

\* String.prototype.includes
Includes(s, needle) ==
    \E i \in 0..(Len(s) - Len(needle)) :
        \A j \in 1..Len(needle) : s[i + j] = needle[j]

Digit(d) == <<"0", "1", "2", "3", "4", "5", "6", "7", "8", "9">>[d + 1]

\* Number.prototype.toString for a non-negative integer.
RECURSIVE NumToString(_)
NumToString(n) ==
    IF n < 10 THEN <<Digit(n)>>
    ELSE Append(NumToString(n \div 10), Digit(n % 10))

\* String(v): the conversion a template literal and the Error constructor apply.
ToStr(v) ==
    CASE v.t = "string" -> v.s
      [] v.t = "number" -> NumToString(v.n)
      [] v.t = "undefined" -> <<"u", "n", "d", "e", "f", "i", "n", "e", "d">>
      [] v.t = "null" -> <<"n", "u", "l", "l">>
      [] OTHER -> <<"[", "o", "b", "j", "e", "c", "t", " ",
                    "O", "b", "j", "e", "c", "t", "]">>

\* ------------------------------------------------- string literals of the code

\* 'Network error'
NetworkErrorText ==
    <<"N", "e", "t", "w", "o", "r", "k", " ", "e", "r", "r", "o", "r">>

\* 'Bad request'
BadRequestText ==
    <<"B", "a", "d", " ", "r", "e", "q", "u", "e", "s", "t">>

\* 'Unknown error'
UnknownErrorText ==
    <<"U", "n", "k", "n", "o", "w", "n", " ", "e", "r", "r", "o", "r">>

\* 'Invalid or missing API key'
AuthenticationDefault ==
    <<"I", "n", "v", "a", "l", "i", "d", " ", "o", "r", " ", "m", "i",
      "s", "s", "i", "n", "g", " ", "A", "P", "I", " ", "k", "e", "y">>

\* 'Rate limit exceeded. Please wait before making more requests.'
RateLimitDefault ==
    <<"R", "a", "t", "e", " ", "l", "i", "m", "i", "t", " ", "e", "x",
      "c", "e", "e", "d", "e", "d", ".", " ", "P", "l", "e", "a", "s",
      "e", " ", "w", "a", "i", "t", " ", "b", "e", "f", "o", "r", "e",
      " ", "m", "a", "k", "i", "n", "g", " ", "m", "o", "r", "e", " ",
      "r", "e", "q", "u", "e", "s", "t", "s", ".">>

\* 'Service temporarily unavailable. Server-side limits reached.'
ServiceUnavailableDefault ==
    <<"S", "e", "r", "v", "i", "c", "e", " ", "t", "e", "m", "p", "o",
      "r", "a", "r", "i", "l", "y", " ", "u", "n", "a", "v", "a", "i",
      "l", "a", "b", "l", "e", ".", " ", "S", "e", "r", "v", "e", "r",
      "-", "s", "i", "d", "e", " ", "l", "i", "m", "i", "t", "s", " ",
      "r", "e", "a", "c", "h", "e", "d", ".">>

\* 'No numbers available for the requested service/country/operator'
NoNumbersDefault ==
    <<"N", "o", " ", "n", "u", "m", "b", "e", "r", "s", " ", "a", "v",
      "a", "i", "l", "a", "b", "l", "e", " ", "f", "o", "r", " ", "t",
      "h", "e", " ", "r", "e", "q", "u", "e", "s", "t", "e", "d", " ",
      "s", "e", "r", "v", "i", "c", "e", "/", "c", "o", "u", "n", "t",
      "r", "y", "/", "o", "p", "e", "r", "a", "t", "o", "r">>

\* 'not available'
NotAvailableText ==
    <<"n", "o", "t", " ", "a", "v", "a", "i", "l", "a", "b", "l", "e">>

\* 'no'
NoText ==
    <<"n", "o">>

\* 'message.toLowerCase is not a function'
NotAFunctionText ==
    <<"m", "e", "s", "s", "a", "g", "e", ".", "t", "o", "L", "o", "w",
      "e", "r", "C", "a", "s", "e", " ", "i", "s", " ", "n", "o", "t",
      " ", "a", " ", "f", "u", "n", "c", "t", "i", "o", "n">>

\* 'Bearer '
BearerPrefix ==
    <<"B", "e", "a", "r", "e", "r", " ">>

\* 'application/json'
ApplicationJson ==
    <<"a", "p", "p", "l", "i", "c", "a", "t", "i", "o", "n", "/", "j",
      "s", "o", "n">>

\* 'https://5sim.net/v1'
DefaultBaseUrl ==
    <<"h", "t", "t", "p", "s", ":", "/", "/", "5", "s", "i", "m", ".",
      "n", "e", "t", "/", "v", "1">>

\* 'hosting'
Hosting ==
    <<"h", "o", "s", "t", "i", "n", "g">>

\* 'activation'
Activation ==
    <<"a", "c", "t", "i", "v", "a", "t", "i", "o", "n">>

\* '/user/profile'
UserProfilePath ==
    <<"/", "u", "s", "e", "r", "/", "p", "r", "o", "f", "i", "l", "e">>

\* '/user/orders'
UserOrdersPath ==
    <<"/", "u", "s", "e", "r", "/", "o", "r", "d", "e", "r", "s">>

\* '/guest/countries'
GuestCountriesPath ==
    <<"/", "g", "u", "e", "s", "t", "/", "c", "o", "u", "n", "t", "r",
      "i", "e", "s">>

\* '/guest/products/'
GuestProductsPath ==
    <<"/", "g", "u", "e", "s", "t", "/", "p", "r", "o", "d", "u", "c",
      "t", "s", "/">>

\* '/guest/prices'
GuestPricesPath ==
    <<"/", "g", "u", "e", "s", "t", "/", "p", "r", "i", "c", "e", "s">>

\* '/user/buy/activation/'
BuyActivationPath ==
    <<"/", "u", "s", "e", "r", "/", "b", "u", "y", "/", "a", "c", "t",
      "i", "v", "a", "t", "i", "o", "n", "/">>

\* '/user/buy/hosting/'
BuyHostingPath ==
    <<"/", "u", "s", "e", "r", "/", "b", "u", "y", "/", "h", "o", "s",
      "t", "i", "n", "g", "/">>

\* '/user/check/'
CheckPath ==
    <<"/", "u", "s", "e", "r", "/", "c", "h", "e", "c", "k", "/">>

\* '/user/finish/'
FinishPath ==
    <<"/", "u", "s", "e", "r", "/", "f", "i", "n", "i", "s", "h", "/">>

\* '/user/cancel/'
CancelPath ==
    <<"/", "u", "s", "e", "r", "/", "c", "a", "n", "c", "e", "l", "/">>

\* '/user/ban/'
BanPath ==
    <<"/", "u", "s", "e", "r", "/", "b", "a", "n", "/">>

\* 'category'
CategoryName ==
    <<"c", "a", "t", "e", "g", "o", "r", "y">>

\* 'limit'
LimitName ==
    <<"l", "i", "m", "i", "t">>

\* 'offset'
OffsetName ==
    <<"o", "f", "f", "s", "e", "t">>

\* 'country'
CountryName ==
    <<"c", "o", "u", "n", "t", "r", "y">>

\* 'product'
ProductName ==
    <<"p", "r", "o", "d", "u", "c", "t">>

\* 'forwarding'
ForwardingName ==
    <<"f", "o", "r", "w", "a", "r", "d", "i", "n", "g">>

\* ----------------------------------------------------------- errors.ts

\* The Error constructor's message: '' for undefined, String(message) otherwise.
ErrorMessage(message) == IF message.t = "undefined" THEN <<>> ELSE ToStr(message)

\* new FiveSimError(message, statusCode, response)
FiveSimError(message, statusCode, response) ==
    [name |-> "FiveSimError", message |-> ErrorMessage(message),
     statusCode |-> statusCode, response |-> response]

\* new AuthenticationError(message = 'Invalid or missing API key')
AuthenticationError(message) ==
    [FiveSimError(IF message.t = "undefined" THEN Str(AuthenticationDefault)
                  ELSE message, Num(401), Undefined)
        EXCEPT !.name = "AuthenticationError"]

\* new RateLimitError(message = 'Rate limit exceeded. ...')
RateLimitError(message) ==
    [FiveSimError(IF message.t = "undefined" THEN Str(RateLimitDefault)
                  ELSE message, Num(429), Undefined)
        EXCEPT !.name = "RateLimitError"]

\* ServiceUnavailableError carrying 500 instead of 503.
ServiceUnavailableError500(message) ==
    [FiveSimError(IF message.t = "undefined" THEN Str(ServiceUnavailableDefault)
                  ELSE message, Num(500), Undefined)
        EXCEPT !.name = "ServiceUnavailableError"]

\* new ServiceUnavailableError(message = 'Service temporarily unavailable. ...')
ServiceUnavailableError(message) ==
    [FiveSimError(IF message.t = "undefined" THEN Str(ServiceUnavailableDefault)
                  ELSE message, Num(503), Undefined)
        EXCEPT !.name = "ServiceUnavailableError"]

\* new NoNumbersError(message = 'No numbers available ...')
NoNumbersError(message) ==
    [FiveSimError(IF message.t = "undefined" THEN Str(NoNumbersDefault)
                  ELSE message, Num(400), Undefined)
        EXCEPT !.name = "NoNumbersError"]

\* class X extends FiveSimError: the superclass of each subclass.
Extends ==
    [AuthenticationError |-> "FiveSimError", RateLimitError |-> "FiveSimError",
     ServiceUnavailableError |-> "FiveSimError",
     NoNumbersError |-> "FiveSimError"]

\* e instanceof cls, for an error built by one of the constructors above.
InstanceOf(e, cls) ==
    \/ e.name = cls
    \/ e.name \in DOMAIN Extends /\ Extends[e.name] = cls

\* The classes of errors.ts: every one is, or extends, FiveSimError.
Taxonomy ==
    {"FiveSimError", "AuthenticationError", "RateLimitError",
     "ServiceUnavailableError", "NoNumbersError"}

\* The subclasses of FiveSimError.
SpecificKinds == Taxonomy \ {"FiveSimError"}

\* The TypeError the runtime throws when message.toLowerCase is called on a
\* value that is not a string.
TypeError ==
    [name |-> "TypeError", message |-> NotAFunctionText,
     statusCode |-> Undefined, response |-> Undefined]

\* ------------------------------------------------- client.ts: handleError

\* 'Request failed with status code', the message of the AxiosError axios
\* makes of a response outside 2xx.
RequestFailedText ==
    <<"R", "e", "q", "u", "e", "s", "t", " ", "f", "a", "i", "l", "e", "d">>

\* An AxiosError: its message and, when the server answered, its response.
AxiosError(message, response) == [message |-> message, response |-> response]

\* An HTTP response as the transport delivers it.
Response(status, data) == [t |-> "response", status |-> status, data |-> data]

Returned(e) == [thrown |-> FALSE, value |-> e]
Thrown(e) == [thrown |-> TRUE, value |-> e]

\* HandleBadRequest with the heuristic applied to the message as received,
\* without toLowerCase.
HandleBadRequestCaseSensitive(status, data) ==
    LET message == IF IsString(data) THEN data ELSE Or(MessageOf(data), Str(<<>>))
    IN IF ~IsString(message)
       THEN Thrown(TypeError)
       ELSE IF \/ Includes(message.s, NoText)
               \/ Includes(message.s, NotAvailableText)
            THEN Returned(NoNumbersError(message))
            ELSE Returned(FiveSimError(Or(message, Str(BadRequestText)),
                                       Num(status), data))

\* case 400 of handleError: the no-numbers heuristic.
HandleBadRequest(status, data) ==
    LET message == IF IsString(data) THEN data ELSE Or(MessageOf(data), Str(<<>>))
    IN IF ~IsString(message)
       THEN Thrown(TypeError)
       ELSE IF \/ Includes(ToLowerCase(message.s), NoText)
               \/ Includes(ToLowerCase(message.s), NotAvailableText)
            THEN Returned(NoNumbersError(message))
            ELSE Returned(FiveSimError(Or(message, Str(BadRequestText)),
                                       Num(status), data))

\* HandleOtherStatus with the raw body left out of the error.
HandleOtherStatusNoBody(status, data) ==
    LET msg == IF IsString(data) THEN data
               ELSE Or(MessageOf(data), Str(UnknownErrorText))
    IN Returned(FiveSimError(msg, Num(status), Undefined))

\* default case of handleError.
HandleOtherStatus(status, data) ==
    LET msg == IF IsString(data) THEN data
               ELSE Or(MessageOf(data), Str(UnknownErrorText))
    IN Returned(FiveSimError(msg, Num(status), data))

\* handleError with the no-numbers heuristic tried on the body before the
\* status is looked at.
handleErrorBodyFirst(error) ==
    IF error.response.t = "undefined"
    THEN Returned(FiveSimError(Or(Str(error.message), Str(NetworkErrorText)),
                               Undefined, Undefined))
    ELSE LET status == error.response.status
             data == error.response.data
         IN IF IsString(data) /\ Includes(ToLowerCase(data.s), NoText)
            THEN Returned(NoNumbersError(data))
            ELSE CASE status = 401 -> Returned(AuthenticationError(Undefined))
                   [] status = 429 -> Returned(RateLimitError(Undefined))
                   [] status = 503 -> Returned(ServiceUnavailableError(Undefined))
                   [] status = 400 -> HandleBadRequest(status, data)
                   [] OTHER -> HandleOtherStatus(status, data)

\* handleError with the transport's message dropped: every failure without a
\* response reports 'Network error'.
handleErrorDropsMessage(error) ==
    IF error.response.t = "undefined"
    THEN Returned(FiveSimError(Str(NetworkErrorText), Undefined, Undefined))
    ELSE LET status == error.response.status
             data == error.response.data
         IN CASE status = 401 -> Returned(AuthenticationError(Undefined))
              [] status = 429 -> Returned(RateLimitError(Undefined))
              [] status = 503 -> Returned(ServiceUnavailableError(Undefined))
              [] status = 400 -> HandleBadRequest(status, data)
              [] OTHER -> HandleOtherStatus(status, data)

\* handleError(error): the error it returns, or the exception it throws.
handleError(error) ==
    IF error.response.t = "undefined"
    THEN Returned(FiveSimError(Or(Str(error.message), Str(NetworkErrorText)),
                               Undefined, Undefined))
    ELSE LET status == error.response.status
             data == error.response.data
         IN CASE status = 401 -> Returned(AuthenticationError(Undefined))
              [] status = 429 -> Returned(RateLimitError(Undefined))
              [] status = 503 -> Returned(ServiceUnavailableError(Undefined))
              [] status = 400 -> HandleBadRequest(status, data)
              [] OTHER -> HandleOtherStatus(status, data)

\* The response interceptor's error handler, Promise.reject(this.handleError(
\* error)): the reason the request's promise is rejected with, whether
\* handleError returned it or threw it.
RejectionReason(error) == handleError(error).value

\* ------------------------------------------------------ URLSearchParams

\* application/x-www-form-urlencoded serialisation of one character.
EncodeChar(ch) ==
    CASE ch = " " -> <<"+">>
      [] ch = "&" -> <<"%", "2", "6">>
      [] ch = "=" -> <<"%", "3", "D">>
      [] ch = "?" -> <<"%", "3", "F">>
      [] ch = "/" -> <<"%", "2", "F">>
      [] OTHER -> <<ch>>

RECURSIVE Encode(_)
Encode(s) == IF s = <<>> THEN <<>> ELSE EncodeChar(Head(s)) \o Encode(Tail(s))

\* URLSearchParams.prototype.toString of a list of <<name, value>> pairs.
RECURSIVE Serialize(_)
Serialize(params) ==
    IF params = <<>> THEN <<>>
    ELSE LET p == Head(params)
             pair == Encode(p[1]) \o <<"=">> \o Encode(p[2])
         IN IF Len(params) = 1 THEN pair
            ELSE pair \o <<"&">> \o Serialize(Tail(params))

\* `${path}${queryString ? `?${queryString}` : ''}`
WithQuery(path, params) ==
    LET queryString == Serialize(params)
    IN IF queryString # <<>> THEN path \o <<"?">> \o queryString ELSE path

\* options?.field
Opt(options, field) ==
    IF options.t = "undefined" THEN Undefined ELSE options[field]

\* ------------------------------------------------ client.ts: the URLs

\* The URL getOrderHistory builds.
OrderHistoryUrl(options) ==
    LET category == Opt(options, "category")
        limit == Opt(options, "limit")
        offset == Opt(options, "offset")
        p0 == <<>>
        p1 == IF Truthy(category)
              THEN Append(p0, <<CategoryName, ToStr(category)>>) ELSE p0
        p2 == IF Truthy(limit)
              THEN Append(p1, <<LimitName, ToStr(limit)>>) ELSE p1
        p3 == IF offset # Undefined
              THEN Append(p2, <<OffsetName, ToStr(offset)>>) ELSE p2
    IN WithQuery(UserOrdersPath, p3)

\* The URL getPrices builds.
PricesUrl(options) ==
    LET country == Opt(options, "country")
        product == Opt(options, "product")
        p0 == <<>>
        p1 == IF Truthy(country)
              THEN Append(p0, <<CountryName, ToStr(country)>>) ELSE p0
        p2 == IF Truthy(product)
              THEN Append(p1, <<ProductName, ToStr(product)>>) ELSE p1
    IN WithQuery(GuestPricesPath, p2)

\* BuyActivationUrl with the caller's forwarding value sent as given.
BuyActivationUrlLiteral(options) ==
    LET p0 == <<>>
        p1 == IF Truthy(options.forwarding)
              THEN Append(p0, <<ForwardingName, ToStr(options.forwarding)>>)
              ELSE p0
    IN WithQuery(BuyActivationPath \o ToStr(options.country) \o <<"/">>
                 \o ToStr(options.operator) \o <<"/">> \o ToStr(options.product),
                 p1)

\* The URL buyActivation builds.
BuyActivationUrl(options) ==
    LET p0 == <<>>
        p1 == IF Truthy(options.forwarding)
              THEN Append(p0, <<ForwardingName, <<"1">>>>) ELSE p0
    IN WithQuery(BuyActivationPath \o ToStr(options.country) \o <<"/">>
                 \o ToStr(options.operator) \o <<"/">> \o ToStr(options.product),
                 p1)

\* `/guest/products/${country}/${operator}`
ProductsUrl(country, operator) ==
    GuestProductsPath \o ToStr(country) \o <<"/">> \o ToStr(operator)

\* `/user/buy/hosting/${country}/${operator}/${product}`
BuyHostingUrl(options) ==
    BuyHostingPath \o ToStr(options.country) \o <<"/">>
    \o ToStr(options.operator) \o <<"/">> \o ToStr(options.product)

\* `/user/check/${id}`, `/user/finish/${id}`, `/user/cancel/${id}`, `/user/ban/${id}`
OrderUrl(prefix, id) == prefix \o ToStr(id)

\* ------------------------------------------------------------------ state

VARIABLES
    config,   \* the FiveSimConfig the client was constructed with
    client,   \* the axios instance: its defaults (baseURL, timeout, headers)
    calls     \* per call slot: the invocation in progress or last settled

vars == <<config, client, calls>>

CallIds == 1..MaxCalls

\* The call slot a caller that awaits every call before the next one uses.
FirstCall == CHOOSE c \in CallIds : \A d \in CallIds : c <= d

\* ----------------------------------------------------------- input domains

KeyChars == {"k"}
ArgChars == {"a", "&"}
MsgChars == {"n", "N", "o", "O"}

ApiKeys == Texts(KeyChars, MaxKeyLen)
BaseUrls == {Undefined, Str(<<>>), Str(<<"u">>)}
Timeouts == {Undefined, Num(0), Num(1)}
Configs == [apiKey : ApiKeys, baseUrl : BaseUrls, timeout : Timeouts]

\* Optional string arguments (country and product filters, forwarding).
ArgStrings == {Str(s) : s \in Texts(ArgChars, MaxArgLen)}
\* Required string arguments, which the operations place in the path.
PathStrings == {Str(<<"a">>), Str(<<"?">>)}
Numbers == {Num(n) : n \in 0..MaxNum}
Categories == {Str(Hosting), Str(Activation)}

OrderHistoryOptions ==
    {Undefined} \cup
    [t : {"object"}, category : {Undefined} \cup Categories,
     limit : {Undefined} \cup Numbers, offset : {Undefined} \cup Numbers]

GetPricesOptions ==
    {Undefined} \cup
    [t : {"object"}, country : {Undefined} \cup ArgStrings,
     product : {Undefined} \cup ArgStrings]

BuyActivationOptions ==
    [t : {"object"}, country : PathStrings, operator : PathStrings,
     product : PathStrings, forwarding : {Undefined} \cup ArgStrings]

BuyHostingOptions ==
    [t : {"object"}, country : PathStrings, operator : PathStrings,
     product : PathStrings]

MsgTexts == Texts(MsgChars, MaxMsgLen)

\* The values of a body's message property: absent, null, a number, a text.
MessageValues ==
    {Undefined, Null} \cup Numbers \cup {Str(s) : s \in MsgTexts}

\* Response bodies: none, null, a text, or an object.
Bodies ==
    {Undefined, Null} \cup {Str(s) : s \in MsgTexts}
    \cup {Obj(m) : m \in MessageValues}

\* enum OrderStatus
OrderStatuses ==
    {"PENDING", "RECEIVED", "CANCELED", "TIMEOUT", "FINISHED", "BANNED"}

\* The statuses after which the service lets an order change no more.
TerminalStatuses == {"CANCELED", "TIMEOUT", "FINISHED", "BANNED"}

CodeChars == {"7"}

\* interface SMS, reduced to its code.
SmsMessages == [t : {"sms"}, code : Texts(CodeChars, MaxArgLen)]

\* Sequences of SMS messages of length at most n.
RECURSIVE SmsLists(_)
SmsLists(n) ==
    IF n = 0 THEN {<<>>}
    ELSE LET shorter == SmsLists(n - 1)
         IN shorter \cup {Append(l, m) : l \in shorter, m \in SmsMessages}

\* interface Order, reduced to id, status and sms.
Orders ==
    [t : {"order"}, id : 0..MaxNum, status : OrderStatuses,
     sms : SmsLists(MaxSms)]

\* Bodies of 2xx responses: any body, or an Order.
SuccessBodies == Bodies \cup Orders

\* Statuses axios resolves (validateStatus: 2xx) and rejects.
SuccessStatuses == {200}
FailureStatuses == {400, 401, 404, 429, 500, 503}

\* ------------------------------------------------------------ constructor

\* timeout: config.timeout || 30000
DefaultTimeout == 30000

\* axios.create({baseURL, timeout, headers})
Create(cfg) ==
    [baseURL |-> ToStr(Or(cfg.baseUrl, Str(DefaultBaseUrl))),
     timeout |-> Or(cfg.timeout, Num(DefaultTimeout)).n,
     headers |-> [Authorization |-> BearerPrefix \o cfg.apiKey,
                  Accept |-> ApplicationJson],
     interceptors |-> [rejected |-> "handleError"]]

Idle ==
    [state |-> "idle", op |-> "none", args |-> Undefined, request |-> Undefined,
     sent |-> 0, reply |-> Undefined, outcome |-> Undefined]

Init ==
    /\ config \in Configs
    /\ client = Create(config)
    /\ calls = [c \in CallIds |-> Idle]

\* --------------------------------------------------------------- requests

\* Get with the Authorization header left off the guest endpoints.
GetGuestUnauthenticated(url) ==
    [method |-> "GET", url |-> url, baseURL |-> client.baseURL,
     timeout |-> client.timeout,
     headers |-> IF SubSeq(url, 1, 6) = <<"/", "g", "u", "e", "s", "t">>
                 THEN [client.headers EXCEPT !.Authorization = <<>>]
                 ELSE client.headers]

\* this.client.get(url): the request axios sends, built from the instance's
\* defaults.
Get(url) ==
    [method |-> "GET", url |-> url, baseURL |-> client.baseURL,
     timeout |-> client.timeout, headers |-> client.headers]

\* The call slot of an operation suspended at its await, its one request sent.
Pending(op, args, url) ==
    [state |-> "pending", op |-> op, args |-> args, request |-> Get(url),
     sent |-> 1, reply |-> Undefined, outcome |-> Undefined]

getProfile(c) ==
    /\ calls[c].state = "idle"
    /\ calls' = [calls EXCEPT ![c] =
                    Pending("getProfile", Undefined, UserProfilePath)]
    /\ UNCHANGED <<config, client>>

getOrderHistory(c, options) ==
    /\ calls[c].state = "idle"
    /\ calls' = [calls EXCEPT ![c] =
                    Pending("getOrderHistory", options, OrderHistoryUrl(options))]
    /\ UNCHANGED <<config, client>>

getCountries(c) ==
    /\ calls[c].state = "idle"
    /\ calls' = [calls EXCEPT ![c] =
                    Pending("getCountries", Undefined, GuestCountriesPath)]
    /\ UNCHANGED <<config, client>>

getProducts(c, country, operator) ==
    /\ calls[c].state = "idle"
    /\ calls' = [calls EXCEPT ![c] =
                    Pending("getProducts",
                            [t |-> "object", country |-> country,
                             operator |-> operator],
                            ProductsUrl(country, operator))]
    /\ UNCHANGED <<config, client>>

getPrices(c, options) ==
    /\ calls[c].state = "idle"
    /\ calls' = [calls EXCEPT ![c] =
                    Pending("getPrices", options, PricesUrl(options))]
    /\ UNCHANGED <<config, client>>

buyActivation(c, options) ==
    /\ calls[c].state = "idle"
    /\ calls' = [calls EXCEPT ![c] =
                    Pending("buyActivation", options, BuyActivationUrl(options))]
    /\ UNCHANGED <<config, client>>

buyHosting(c, options) ==
    /\ calls[c].state = "idle"
    /\ calls' = [calls EXCEPT ![c] =
                    Pending("buyHosting", options, BuyHostingUrl(options))]
    /\ UNCHANGED <<config, client>>

\* checkOrder building its request in one request object shared by the
\* instance: the requests still in flight now carry this call's URL.
checkOrderSharedRequest(c, id) ==
    /\ calls[c].state = "idle"
    /\ calls' = [d \in CallIds |->
                    IF d = c
                    THEN Pending("checkOrder", id, OrderUrl(CheckPath, id))
                    ELSE IF calls[d].state = "pending"
                    THEN [calls[d] EXCEPT
                             !.request.url = OrderUrl(CheckPath, id)]
                    ELSE calls[d]]
    /\ UNCHANGED <<config, client>>

checkOrder(c, id) ==
    /\ calls[c].state = "idle"
    /\ calls' = [calls EXCEPT ![c] =
                    Pending("checkOrder", id, OrderUrl(CheckPath, id))]
    /\ UNCHANGED <<config, client>>

\* finishOrder requesting the cancel endpoint.
finishOrderAsCancel(c, id) ==
    /\ calls[c].state = "idle"
    /\ calls' = [calls EXCEPT ![c] =
                    Pending("finishOrder", id, OrderUrl(CancelPath, id))]
    /\ UNCHANGED <<config, client>>

\* finishOrder behind a local record of order states: it refuses an order that
\* a response still held by the caller reported in a terminal status.
finishOrderTracked(c, id) ==
    /\ calls[c].state = "idle"
    /\ \A d \in CallIds :
          ~ /\ calls[d].state = "resolved"
            /\ calls[d].outcome \in Orders
            /\ calls[d].outcome.id = id.n
            /\ calls[d].outcome.status \in TerminalStatuses
    /\ calls' = [calls EXCEPT ![c] =
                    Pending("finishOrder", id, OrderUrl(FinishPath, id))]
    /\ UNCHANGED <<config, client>>

finishOrder(c, id) ==
    /\ calls[c].state = "idle"
    /\ calls' = [calls EXCEPT ![c] =
                    Pending("finishOrder", id, OrderUrl(FinishPath, id))]
    /\ UNCHANGED <<config, client>>

cancelOrder(c, id) ==
    /\ calls[c].state = "idle"
    /\ calls' = [calls EXCEPT ![c] =
                    Pending("cancelOrder", id, OrderUrl(CancelPath, id))]
    /\ UNCHANGED <<config, client>>

banNumber(c, id) ==
    /\ calls[c].state = "idle"
    /\ calls' = [calls EXCEPT ![c] =
                    Pending("banNumber", id, OrderUrl(BanPath, id))]
    /\ UNCHANGED <<config, client>>

\* -------------------------------------------------------------- responses

\* What the instance's response interceptor chain makes of an AxiosError: the
\* registered handler's rejection reason, or the AxiosError itself when none
\* is registered.
Intercepted(error) ==
    IF client.interceptors.rejected = "handleError"
    THEN RejectionReason(error)
    ELSE [name |-> "AxiosError", message |-> error.message,
          statusCode |-> Undefined, response |-> Undefined]

\* The call's frame is gone once it settles: what remains is what the caller
\* received, the reply that caused it and the number of requests it took.
Settled(call, state, reply, outcome) ==
    [call EXCEPT !.state = state, !.args = Undefined, !.request = Undefined,
                 !.reply = reply, !.outcome = outcome]

\* ResponseSuccess returning the axios response instead of its data.
ResponseSuccessWhole(c, status, data) ==
    /\ calls[c].state = "pending"
    /\ calls' = [calls EXCEPT ![c] =
                    Settled(@, "resolved", Response(status, data),
                            Response(status, data))]
    /\ UNCHANGED <<config, client>>

\* A 2xx response: the interceptor passes it on, the operation returns its data.
ResponseSuccess(c, status, data) ==
    /\ calls[c].state = "pending"
    /\ calls' = [calls EXCEPT ![c] =
                    Settled(@, "resolved", Response(status, data), data)]
    /\ UNCHANGED <<config, client>>

\* ResponseError with one automatic retry of a 429 or 503: the request is sent
\* again and the call stays pending.
ResponseErrorRetry(c, status, data) ==
    /\ calls[c].state = "pending"
    /\ calls' = [calls EXCEPT ![c] =
                    IF status \in {429, 503} /\ @.sent < 2
                    THEN [@ EXCEPT !.sent = @ + 1]
                    ELSE Settled(@, "rejected", Response(status, data),
                                 Intercepted(AxiosError(RequestFailedText,
                                                            Response(status, data))))]
    /\ UNCHANGED <<config, client>>

\* ResponseError that forgets the credential after a 401: the Authorization
\* header is removed from the instance's defaults.
ResponseErrorDropsAuth(c, status, data) ==
    /\ calls[c].state = "pending"
    /\ calls' = [calls EXCEPT ![c] =
                    Settled(@, "rejected", Response(status, data),
                            Intercepted(AxiosError(RequestFailedText,
                                                   Response(status, data))))]
    /\ client' = IF status = 401
                 THEN [client EXCEPT !.headers.Authorization = <<>>]
                 ELSE client
    /\ UNCHANGED config

\* A response outside 2xx: axios rejects with an AxiosError carrying it, the
\* interceptor rejects with what handleError makes of it, and the operation's
\* await rethrows that.
ResponseError(c, status, data) ==
    /\ calls[c].state = "pending"
    /\ calls' = [calls EXCEPT ![c] =
                    Settled(@, "rejected", Response(status, data),
                            Intercepted(AxiosError(RequestFailedText,
                                                       Response(status, data))))]
    /\ UNCHANGED <<config, client>>

\* NetworkError whose late failure (a timeout firing after the response) also
\* rejects a call that has already resolved.
NetworkErrorLate(c, message) ==
    /\ calls[c].state \in {"pending", "resolved"}
    /\ calls' = [calls EXCEPT ![c] =
                    Settled(@, "rejected",
                            [t |-> "networkError", message |-> message],
                            Intercepted(AxiosError(message, Undefined)))]
    /\ UNCHANGED <<config, client>>

\* No response at all (DNS failure, timeout, connection refused): axios rejects
\* with an AxiosError that has a message and no response.
NetworkError(c, message) ==
    /\ calls[c].state = "pending"
    /\ calls' = [calls EXCEPT ![c] =
                    Settled(@, "rejected",
                            [t |-> "networkError", message |-> message],
                            Intercepted(AxiosError(message, Undefined)))]
    /\ UNCHANGED <<config, client>>

\* The caller has taken the settled call's result; the slot is free for the
\* caller's next call.
Return(c) ==
    /\ calls[c].state \in {"resolved", "rejected"}
    /\ calls' = [calls EXCEPT ![c] = Idle]
    /\ UNCHANGED <<config, client>>

\* One step of the client on call slot c, with its inputs.
Step(c) ==
    \/ getProfile(c)
    \/ \E o \in OrderHistoryOptions : getOrderHistory(c, o)
    \/ getCountries(c)
    \/ \E country \in PathStrings, operator \in PathStrings :
          getProducts(c, country, operator)
    \/ \E o \in GetPricesOptions : getPrices(c, o)
    \/ \E o \in BuyActivationOptions : buyActivation(c, o)
    \/ \E o \in BuyHostingOptions : buyHosting(c, o)
    \/ \E id \in Numbers : checkOrder(c, id)
    \/ \E id \in Numbers : finishOrder(c, id)
    \/ \E id \in Numbers : cancelOrder(c, id)
    \/ \E id \in Numbers : banNumber(c, id)
    \/ \E s \in SuccessStatuses, d \in SuccessBodies : ResponseSuccess(c, s, d)
    \/ \E s \in FailureStatuses, d \in Bodies : ResponseError(c, s, d)
    \/ \E m \in MsgTexts : NetworkError(c, m)
    \/ Return(c)

\* A caller that awaits each call before making the next.
Next == Step(FirstCall)

Spec == Init /\ [][Next]_vars

\* ------------------------------------------------------- concurrent callers

\* One client, as a caller constructs it with only the API key.
ConcConfigs ==
    {[apiKey |-> <<"k">>, baseUrl |-> Undefined, timeout |-> Undefined]}

\* The arguments and replies of the concurrent callers: one value per option
\* object, two order ids, an Order in each terminal status, one failure
\* response and one transport failure.
ConcIds == {Num(0), Num(1)}
ConcPlace ==
    [t |-> "object", country |-> Str(<<"a">>), operator |-> Str(<<"a">>),
     product |-> Str(<<"a">>)]
ConcActivation ==
    [t |-> "object", country |-> Str(<<"a">>), operator |-> Str(<<"a">>),
     product |-> Str(<<"a">>), forwarding |-> Undefined]
ConcOrders ==
    [t : {"order"}, id : {1}, status : TerminalStatuses, sms : {<<>>}]
ConcFailures == {429}
ConcMessages == {<<"n">>}

InitConc ==
    /\ config \in ConcConfigs
    /\ client = Create(config)
    /\ calls = [c \in CallIds |-> Idle]

\* The replies the transport can deliver to the pending call c.
Deliver(c) ==
    \/ \E s \in SuccessStatuses, d \in ConcOrders : ResponseSuccess(c, s, d)
    \/ \E s \in ConcFailures : ResponseError(c, s, Undefined)
    \/ \E m \in ConcMessages : NetworkError(c, m)

\* The calls a caller can make on the free call slot c.
Invoke(c) ==
    \/ getProfile(c)
    \/ getOrderHistory(c, Undefined)
    \/ getCountries(c)
    \/ getProducts(c, ConcPlace.country, ConcPlace.operator)
    \/ getPrices(c, Undefined)
    \/ buyActivation(c, ConcActivation)
    \/ buyHosting(c, ConcPlace)
    \/ \E id \in ConcIds : checkOrder(c, id)
    \/ \E id \in ConcIds : finishOrder(c, id)
    \/ \E id \in ConcIds : cancelOrder(c, id)
    \/ \E id \in ConcIds : banNumber(c, id)

\* One step of the client on call slot c of a caller that does not await a
\* call before making the next.
StepConc(c) == Invoke(c) \/ Deliver(c) \/ Return(c)

NextConc == \E c \in CallIds : StepConc(c)

SpecConc == InitConc /\ [][NextConc]_vars

\* One reply of each kind: a response axios resolves, a response it rejects
\* and a transport failure.
DeliverOne(c) ==
    \/ \E s \in SuccessStatuses :
          ResponseSuccess(c, s, [t |-> "order", id |-> 1, status |-> "FINISHED",
                                 sms |-> <<>>])
    \/ \E s \in ConcFailures : ResponseError(c, s, Undefined)
    \/ \E m \in ConcMessages : NetworkError(c, m)

NextLive == \E c \in CallIds : Invoke(c) \/ DeliverOne(c) \/ Return(c)

\* The transport eventually delivers a response or a failure for every request
\* in flight.
SpecLive ==
    InitConc /\ [][NextLive]_vars /\ \A c \in CallIds : WF_vars(DeliverOne(c))

\* --------------------------------------------------- vocabulary of the claims

\* Call c failed with an HTTP response of the given status.
FailedWith(c, status) ==
    /\ calls[c].state \in {"resolved", "rejected"}
    /\ calls[c].reply.t = "response"
    /\ calls[c].reply.status = status

\* Call c failed with some HTTP response outside 2xx.
Failed(c) == \E s \in FailureStatuses : FailedWith(c, s)

\* Call c never received a response.
FailedWithoutResponse(c) ==
    /\ calls[c].state \in {"resolved", "rejected"}
    /\ calls[c].reply.t = "networkError"

\* s contains "no" in some letter case.
ContainsNo(s) ==
    \E i \in 1..(Len(s) - 1) : s[i] \in {"n", "N"} /\ s[i + 1] \in {"o", "O"}

\* The body's message: the body when it is a string, otherwise its message
\* field (undefined when the body has none).
BodyMessage(data) == IF data.t = "string" THEN data ELSE MessageOf(data)

\* The body's message is a text that matches the no-numbers heuristic.
MatchesNoNumbers(data) ==
    /\ BodyMessage(data).t = "string"
    /\ ContainsNo(BodyMessage(data).s)

\* ------------------------------------------------------------------- C1

\* C1: whatever the operation and the response body, a failed response with
\* status 401 rejects with an AuthenticationError, 429 with a RateLimitError
\* and 503 with a ServiceUnavailableError.
C1_StatusDecidesKind ==
    \A c \in CallIds :
        /\ FailedWith(c, 401) =>
              calls[c].state = "rejected"
              /\ calls[c].outcome.name = "AuthenticationError"
        /\ FailedWith(c, 429) =>
              calls[c].state = "rejected"
              /\ calls[c].outcome.name = "RateLimitError"
        /\ FailedWith(c, 503) =>
              calls[c].state = "rejected"
              /\ calls[c].outcome.name = "ServiceUnavailableError"

\* A 401 whose body text contains "no" was classified as an
\* AuthenticationError.
C1_Witness ==
    \E c \in CallIds :
        /\ FailedWith(c, 401)
        /\ MatchesNoNumbers(calls[c].reply.data)
        /\ calls[c].outcome.name = "AuthenticationError"

\* ------------------------------------------------------------------- C2

\* C2: for every operation, a failed response with status 400 whose message
\* text contains "no" in any letter case rejects with a NoNumbersError that
\* carries that message text.
C2_NoNumbers ==
    \A c \in CallIds :
        (FailedWith(c, 400) /\ MatchesNoNumbers(calls[c].reply.data)) =>
            /\ calls[c].state = "rejected"
            /\ calls[c].outcome.name = "NoNumbersError"
            /\ calls[c].outcome.message = BodyMessage(calls[c].reply.data).s

\* An operation other than the buy operations got a 400 whose body object has
\* a message with "no" in mixed case, and rejected with a NoNumbersError.
C2_Witness ==
    \E c \in CallIds :
        /\ FailedWith(c, 400)
        /\ calls[c].op \notin {"buyActivation", "buyHosting"}
        /\ calls[c].reply.data.t = "object"
        /\ MatchesNoNumbers(calls[c].reply.data)
        /\ BodyMessage(calls[c].reply.data).s # NoText
        /\ calls[c].outcome.name = "NoNumbersError"

\* ------------------------------------------------------------------- C3

\* C3: a failed response with status 400 whose message does not match the
\* no-numbers heuristic rejects with a generic FiveSimError that carries
\* status code 400 and the raw response body.
C3_BadRequestFallback ==
    \A c \in CallIds :
        (FailedWith(c, 400) /\ ~MatchesNoNumbers(calls[c].reply.data)) =>
            /\ calls[c].state = "rejected"
            /\ calls[c].outcome.name = "FiveSimError"
            /\ calls[c].outcome.statusCode = Num(400)
            /\ calls[c].outcome.response = calls[c].reply.data

\* ------------------------------------------------------------------- C4

\* C4: a failed response with a status other than 400, 401, 429 and 503
\* rejects with a generic FiveSimError whose statusCode is the response's
\* status and whose response is the raw body, for every body shape.
C4_OtherStatusGeneric ==
    \A c \in CallIds :
        \A s \in FailureStatuses \ {400, 401, 429, 503} :
            FailedWith(c, s) =>
                /\ calls[c].state = "rejected"
                /\ calls[c].outcome.name = "FiveSimError"
                /\ calls[c].outcome.statusCode = Num(s)
                /\ calls[c].outcome.response = calls[c].reply.data

\* A status outside the four with a body object that has no message field
\* rejected with a generic FiveSimError carrying that body.
C4_Witness ==
    \E c \in CallIds :
        /\ FailedWith(c, 500)
        /\ calls[c].reply.data = Obj(Undefined)
        /\ calls[c].outcome.name = "FiveSimError"
        /\ calls[c].outcome.response = Obj(Undefined)

\* ------------------------------------------------------------------- C5

\* C5 as stated: a request that never receives a response rejects with a
\* generic FiveSimError without status code and response body that carries
\* the transport's message.
C5_TransportMessageCarried ==
    \A c \in CallIds :
        FailedWithoutResponse(c) =>
            /\ calls[c].state = "rejected"
            /\ calls[c].outcome.name = "FiveSimError"
            /\ calls[c].outcome.statusCode = Undefined
            /\ calls[c].outcome.response = Undefined
            /\ calls[c].outcome.message = calls[c].reply.message

\* C5 as amended: a request that never receives a response rejects with a
\* generic FiveSimError without status code and response body, never with a
\* specific kind; it carries the transport's message, or 'Network error' when
\* the transport's message is empty.
C5_TransportError ==
    \A c \in CallIds :
        FailedWithoutResponse(c) =>
            /\ calls[c].state = "rejected"
            /\ calls[c].outcome.name = "FiveSimError"
            /\ calls[c].outcome.name \notin SpecificKinds
            /\ calls[c].outcome.statusCode = Undefined
            /\ calls[c].outcome.response = Undefined
            /\ calls[c].outcome.message =
                  IF calls[c].reply.message # <<>>
                  THEN calls[c].reply.message ELSE NetworkErrorText

\* A transport failure with a message rejected with a FiveSimError carrying it.
C5_Witness ==
    \E c \in CallIds :
        /\ FailedWithoutResponse(c)
        /\ calls[c].reply.message # <<>>
        /\ calls[c].outcome.name = "FiveSimError"
        /\ calls[c].outcome.message = calls[c].reply.message

\* ------------------------------------------------------------------- C6

\* C6: every failed request, whatever its status and the shape of its body,
\* rejects the call with an error of the taxonomy of errors.ts.
C6_TypedRejection ==
    \A c \in CallIds :
        (Failed(c) \/ FailedWithoutResponse(c)) =>
            /\ calls[c].state = "rejected"
            /\ calls[c].outcome.name \in Taxonomy

\* ------------------------------------------------------------------- C7

\* C7: every invocation issues exactly one GET request: one is sent when the
\* operation is invoked, and none is added while it is pending or when it
\* settles, whatever the reply.
C7_ExactlyOneRequest ==
    \A c \in CallIds :
        /\ calls[c].state = "idle" => calls[c].sent = 0
        /\ calls[c].state # "idle" => calls[c].sent = 1
        /\ calls[c].state = "pending" => calls[c].request.method = "GET"
        /\ (Failed(c) \/ FailedWithoutResponse(c)) => calls[c].state = "rejected"

\* A call rejected by a 429 took one request.
C7_Witness ==
    \E c \in CallIds :
        /\ FailedWith(c, 429)
        /\ calls[c].state = "rejected"
        /\ calls[c].sent = 1

\* ------------------------------------------------------------------- C8

\* C8: every request of every operation carries Authorization, the text
\* "Bearer " followed by exactly the configured apiKey, and Accept:
\* application/json.
C8_BearerOnEveryRequest ==
    \A c \in CallIds :
        calls[c].state = "pending" =>
            LET auth == calls[c].request.headers.Authorization
            IN /\ Len(auth) = 7 + Len(config.apiKey)
               /\ SubSeq(auth, 1, 7) = <<"B", "e", "a", "r", "e", "r", " ">>
               /\ SubSeq(auth, 8, Len(auth)) = config.apiKey
               /\ calls[c].request.headers.Accept = ApplicationJson

\* A guest endpoint's request is in flight with a non-empty apiKey in its
\* Authorization header.
C8_Witness ==
    \E c \in CallIds :
        /\ calls[c].state = "pending"
        /\ calls[c].op \in {"getCountries", "getProducts", "getPrices"}
        /\ config.apiKey # <<>>
        /\ calls[c].request.headers.Authorization = BearerPrefix \o config.apiKey

\* ------------------------------------------------------------------- C9

\* name=value, form-encoded, of a parameter the caller supplied; nothing for
\* undefined.
Supplied(name, value) ==
    IF value = Undefined THEN <<>>
    ELSE <<name \o <<"=">> \o Encode(ToStr(value))>>

\* The parts joined by '&'.
RECURSIVE JoinAmp(_)
JoinAmp(parts) ==
    IF parts = <<>> THEN <<>>
    ELSE IF Len(parts) = 1 THEN Head(parts)
    ELSE Head(parts) \o <<"&">> \o JoinAmp(Tail(parts))

\* The path alone when no part is supplied, else path?part&part...
ExpectedUrl(path, parts) ==
    IF parts = <<>> THEN path ELSE path \o <<"?">> \o JoinAmp(parts)

\* C9: getOrderHistory requests /user/orders with category, limit and offset
\* in the query string, in that order, each exactly when the caller supplied
\* a value that is not undefined, and no '?' when none is supplied.
C9_OrderHistoryQuery ==
    \A c \in CallIds :
        (calls[c].state = "pending" /\ calls[c].op = "getOrderHistory") =>
            calls[c].request.url =
                ExpectedUrl(UserOrdersPath,
                    Supplied(CategoryName, Opt(calls[c].args, "category"))
                    \o Supplied(LimitName, Opt(calls[c].args, "limit"))
                    \o Supplied(OffsetName, Opt(calls[c].args, "offset")))

\* ------------------------------------------------------------------ C10

\* C10: getPrices requests /guest/prices with country then product in the
\* query string, each exactly when the caller supplied a value for it, and no
\* '?' when none is supplied.
C10_PricesQuery ==
    \A c \in CallIds :
        (calls[c].state = "pending" /\ calls[c].op = "getPrices") =>
            calls[c].request.url =
                ExpectedUrl(GuestPricesPath,
                    Supplied(CountryName, Opt(calls[c].args, "country"))
                    \o Supplied(ProductName, Opt(calls[c].args, "product")))

\* ------------------------------------------------------------------ C11

\* The number of '?' characters of a text.
QuestionMarks(s) == Cardinality({i \in 1..Len(s) : s[i] = "?"})

\* /user/buy/activation/{country}/{operator}/{product}
C11_Path(options) ==
    <<"/", "u", "s", "e", "r", "/", "b", "u", "y", "/", "a", "c",
      "t", "i", "v", "a", "t", "i", "o", "n", "/">>
    \o options.country.s \o <<"/">> \o options.operator.s \o <<"/">>
    \o options.product.s

\* C11: buyActivation with a truthy forwarding value, whatever it is, requests
\* /user/buy/activation/{country}/{operator}/{product}?forwarding=1; with
\* forwarding absent it requests that path with no '?' separator and no query
\* string after it.
C11_ForwardingFlag ==
    \A c \in CallIds :
        (calls[c].state = "pending" /\ calls[c].op = "buyActivation") =>
            LET o == calls[c].args
                url == calls[c].request.url
                path == C11_Path(o)
            IN /\ (o.forwarding.t = "string" /\ o.forwarding.s # <<>>) =>
                     /\ url = path \o <<"?", "f", "o", "r", "w", "a", "r", "d", "i", "n", "g", "=",
                                        "1">>
                     /\ QuestionMarks(url) = QuestionMarks(path) + 1
               /\ o.forwarding = Undefined =>
                     /\ url = path
                     /\ QuestionMarks(url) = QuestionMarks(path)

\* A buyActivation with a forwarding value other than '1' is in flight with
\* ?forwarding=1 at the end of its URL.
C11_Witness ==
    \E c \in CallIds :
        /\ calls[c].state = "pending"
        /\ calls[c].op = "buyActivation"
        /\ calls[c].args.forwarding.t = "string"
        /\ calls[c].args.forwarding.s \notin {<<>>, <<"1">>}
        /\ calls[c].request.url =
              C11_Path(calls[c].args) \o <<"?", "f", "o", "r", "w", "a", "r", "d", "i", "n", "g", "=",
                                           "1">>

\* ------------------------------------------------------------------ C12

\* The operations without query parameters.
NoQueryOps ==
    {"getProfile", "getCountries", "getProducts", "buyHosting", "checkOrder",
     "finishOrder", "cancelOrder", "banNumber"}

\* The operations that take an order id.
OrderIdOps == {"checkOrder", "finishOrder", "cancelOrder", "banNumber"}

\* The decimal digits of a non-negative number, most significant first.
RECURSIVE Decimal(_)
Decimal(n) ==
    LET d == <<"0", "1", "2", "3", "4", "5", "6", "7", "8", "9">>[(n % 10) + 1]
    IN IF n < 10 THEN <<d>> ELSE Append(Decimal(n \div 10), d)

\* The path of an operation without query parameters for the caller's
\* arguments.
C12_Path(op, args) ==
    CASE op = "getProfile" ->
            <<"/", "u", "s", "e", "r", "/", "p", "r", "o", "f", "i", "l",
              "e">>
      [] op = "getCountries" ->
            <<"/", "g", "u", "e", "s", "t", "/", "c", "o", "u", "n", "t",
              "r", "i", "e", "s">>
      [] op = "getProducts" ->
            <<"/", "g", "u", "e", "s", "t", "/", "p", "r", "o", "d", "u",
              "c", "t", "s", "/">>
            \o args.country.s \o <<"/">> \o args.operator.s
      [] op = "buyHosting" ->
            <<"/", "u", "s", "e", "r", "/", "b", "u", "y", "/", "h", "o",
              "s", "t", "i", "n", "g", "/">>
            \o args.country.s \o <<"/">> \o args.operator.s \o <<"/">>
            \o args.product.s
      [] op = "checkOrder" ->
            <<"/", "u", "s", "e", "r", "/", "c", "h", "e", "c", "k", "/">> \o Decimal(args.n)
      [] op = "finishOrder" ->
            <<"/", "u", "s", "e", "r", "/", "f", "i", "n", "i", "s", "h",
              "/">> \o Decimal(args.n)
      [] op = "cancelOrder" ->
            <<"/", "u", "s", "e", "r", "/", "c", "a", "n", "c", "e", "l",
              "/">> \o Decimal(args.n)
      [] op = "banNumber" ->
            <<"/", "u", "s", "e", "r", "/", "b", "a", "n", "/">> \o Decimal(args.n)

\* The '?' characters the caller's own arguments contain.
ArgQuestionMarks(op, args) ==
    CASE op = "getProducts" ->
            QuestionMarks(args.country.s) + QuestionMarks(args.operator.s)
      [] op = "buyHosting" ->
            QuestionMarks(args.country.s) + QuestionMarks(args.operator.s)
            + QuestionMarks(args.product.s)
      [] OTHER -> 0

\* The operations that take the same arguments as op.
SameArguments(op) ==
    CASE op \in OrderIdOps -> OrderIdOps
      [] op \in {"getProfile", "getCountries"} -> {"getProfile", "getCountries"}
      [] OTHER -> {op}

\* C12: every operation without query parameters requests exactly its own
\* path with the caller's arguments in path position, adds no '?' and no query
\* string to it, and requests a path that no other operation has for the same
\* arguments.
C12_OwnPath ==
    \A c \in CallIds :
        (calls[c].state = "pending" /\ calls[c].op \in NoQueryOps) =>
            LET op == calls[c].op
                args == calls[c].args
                url == calls[c].request.url
            IN /\ url = C12_Path(op, args)
               /\ QuestionMarks(url) = ArgQuestionMarks(op, args)
               /\ \A other \in SameArguments(op) \ {op} :
                     url # C12_Path(other, args)

\* A finishOrder for an order id is in flight on /user/finish/{id}.
C12_Witness ==
    \E c \in CallIds :
        /\ calls[c].state = "pending"
        /\ calls[c].op = "finishOrder"
        /\ calls[c].args = Num(1)
        /\ calls[c].request.url =
              <<"/", "u", "s", "e", "r", "/", "f", "i", "n", "i", "s", "h",
                "/">> \o <<"1">>

\* ------------------------------------------------------------------ C13

\* C13: a call that resolved holds, for as long as the caller has it, exactly
\* the body the server sent: same value, same fields, for an Order the same
\* status and the same sms entries with the same codes.
C13_BodyUnchanged ==
    \A c \in CallIds :
        calls[c].state = "resolved" =>
            /\ calls[c].reply.t = "response"
            /\ calls[c].outcome = calls[c].reply.data
            /\ calls[c].reply.data.t = "order" =>
                  /\ calls[c].outcome.status = calls[c].reply.data.status
                  /\ Len(calls[c].outcome.sms) = Len(calls[c].reply.data.sms)
                  /\ \A i \in 1..Len(calls[c].reply.data.sms) :
                        calls[c].outcome.sms[i].code =
                            calls[c].reply.data.sms[i].code

\* checkOrder resolved with an Order that has one SMS with a code.
C13_Witness ==
    \E c \in CallIds :
        /\ calls[c].state = "resolved"
        /\ calls[c].op = "checkOrder"
        /\ calls[c].reply.data.t = "order"
        /\ Len(calls[c].reply.data.sms) = 1
        /\ calls[c].reply.data.sms[1].code # <<>>
        /\ calls[c].outcome.sms[1].code = calls[c].reply.data.sms[1].code

\* ------------------------------------------------------------------ C14

\* C14: the instance uses the caller's baseUrl and timeout whenever the
\* configuration provides them, and https://5sim.net/v1 and 30000 only when it
\* does not.
C14_ConfiguredValuesUsed ==
    /\ client.baseURL =
          IF config.baseUrl # Undefined THEN config.baseUrl.s
          ELSE <<"h", "t", "t", "p", "s", ":", "/", "/", "5", "s", "i", "m",
                 ".", "n", "e", "t", "/", "v", "1">>
    /\ client.timeout =
          IF config.timeout # Undefined THEN config.timeout.n ELSE 30000
    /\ \A c \in CallIds :
          calls[c].state = "pending" =>
              /\ calls[c].request.baseURL = client.baseURL
              /\ calls[c].request.timeout = client.timeout

\* ------------------------------------------------------------------ C18

\* The status code of each specific kind.
KindStatus ==
    [AuthenticationError |-> 401, RateLimitError |-> 429,
     ServiceUnavailableError |-> 503, NoNumbersError |-> 400]

\* C18: an error of the taxonomy that a call rejected with is a FiveSimError;
\* a specific kind carries the status code of its kind and no response body;
\* and when there was a response the error's statusCode is the response's
\* status.
C18_KindStatusCodes ==
    \A c \in CallIds :
        (calls[c].state = "rejected" /\ calls[c].outcome.name \in Taxonomy) =>
            LET e == calls[c].outcome
            IN /\ InstanceOf(e, "FiveSimError")
               /\ e.name \in SpecificKinds =>
                     /\ e.statusCode = Num(KindStatus[e.name])
                     /\ e.response = Undefined
               /\ calls[c].reply.t = "response" =>
                     e.statusCode = Num(calls[c].reply.status)

\* A call rejected with each of the four specific kinds needs four calls; this
\* one rejected with a ServiceUnavailableError carrying 503 and no body although
\* the response had one.
C18_Witness ==
    \E c \in CallIds :
        /\ calls[c].state = "rejected"
        /\ calls[c].outcome.name = "ServiceUnavailableError"
        /\ calls[c].reply.data # Undefined
        /\ calls[c].outcome.statusCode = Num(503)
        /\ calls[c].outcome.response = Undefined

\* ------------------------------------------------------------------ C19

\* C19: no step of the client changes the configuration, the instance's base
\* URL, timeout and headers, or the registered error translation.
C19_ConfigurationFixed ==
    [][/\ config' = config
       /\ client'.baseURL = client.baseURL
       /\ client'.timeout = client.timeout
       /\ client'.headers = client.headers
       /\ client'.interceptors = client.interceptors]_vars

\* A call has failed with a 401 and the instance still holds the headers and
\* the error translation of its construction.
C19_Witness ==
    \E c \in CallIds :
        /\ FailedWith(c, 401)
        /\ calls[c].state = "rejected"
        /\ client.headers.Authorization = BearerPrefix \o config.apiKey
        /\ client.interceptors.rejected = "handleError"

\* ------------------------------------------------------------------ C15

\* The path of each order operation.
C15_Prefix ==
    [checkOrder  |-> <<"/", "u", "s", "e", "r", "/", "c", "h", "e", "c", "k", "/">>,
     finishOrder |-> <<"/", "u", "s", "e", "r", "/", "f", "i", "n", "i", "s", "h", "/">>,
     cancelOrder |-> <<"/", "u", "s", "e", "r", "/", "c", "a", "n", "c", "e", "l", "/">>,
     banNumber   |-> <<"/", "u", "s", "e", "r", "/", "b", "a", "n", "/">>]

\* Whatever the calls so far did and whatever their responses reported, every
\* order operation can be called for every id.
C15_AlwaysCallable ==
    \A c \in CallIds, id \in ConcIds :
        calls[c].state = "idle" =>
            /\ ENABLED checkOrder(c, id)
            /\ ENABLED finishOrder(c, id)
            /\ ENABLED cancelOrder(c, id)
            /\ ENABLED banNumber(c, id)

\* A call of an order operation sends one request, to the operation's path
\* followed by the id it was given.
C15_RequestFromIdOnly ==
    \A c \in CallIds :
        (/\ calls[c].state = "idle"
         /\ calls'[c].state = "pending"
         /\ calls'[c].op \in OrderIdOps) =>
            /\ calls'[c].sent = 1
            /\ calls'[c].request.method = "GET"
            /\ calls'[c].request.url =
                  C15_Prefix[calls'[c].op] \o Decimal(calls'[c].args.n)

\* C15: the client keeps no order state machine. In every state, whatever
\* statuses earlier responses reported, checkOrder, finishOrder, cancelOrder
\* and banNumber can be called for any id, and the call sends the request its
\* operation and id determine.
C15_NoLocalOrderState ==
    [] C15_AlwaysCallable /\ [][C15_RequestFromIdOnly]_vars

\* The caller holds a response that reported order 1 FINISHED, and a
\* finishOrder for the same order is in flight with its request sent.
C15_Witness ==
    \E c \in CallIds, d \in CallIds :
        /\ calls[d].state = "resolved"
        /\ calls[d].outcome \in Orders
        /\ calls[d].outcome.id = 1
        /\ calls[d].outcome.status = "FINISHED"
        /\ calls[c].state = "pending"
        /\ calls[c].op = "finishOrder"
        /\ calls[c].args = Num(1)
        /\ calls[c].sent = 1

\* ------------------------------------------------------------------ C16

\* The URL the operation op builds from the arguments args.
C16_UrlOf(op, args) ==
    CASE op = "getProfile"      -> UserProfilePath
      [] op = "getOrderHistory" -> OrderHistoryUrl(args)
      [] op = "getCountries"    -> GuestCountriesPath
      [] op = "getProducts"     -> ProductsUrl(args.country, args.operator)
      [] op = "getPrices"       -> PricesUrl(args)
      [] op = "buyActivation"   -> BuyActivationUrl(args)
      [] op = "buyHosting"      -> BuyHostingUrl(args)
      [] op = "checkOrder"      -> OrderUrl(CheckPath, args)
      [] op = "finishOrder"     -> OrderUrl(FinishPath, args)
      [] op = "cancelOrder"     -> OrderUrl(CancelPath, args)
      [] op = "banNumber"       -> OrderUrl(BanPath, args)

\* The request of every call in flight carries the URL of the call's own
\* operation and arguments.
C16_OwnRequest ==
    \A c \in CallIds :
        calls[c].state = "pending" =>
            calls[c].request.url = C16_UrlOf(calls[c].op, calls[c].args)

\* A step is a step of one call: the other calls are as they were, and a call
\* that settles does so with the data of the response delivered to it, or with
\* the error made of the failure delivered to it.
C16_OwnSettlement ==
    \A c \in CallIds :
        calls'[c] # calls[c] =>
            /\ \A d \in CallIds \ {c} : calls'[d] = calls[d]
            /\ calls'[c].state = "resolved" =>
                  /\ calls[c].state = "pending"
                  /\ calls'[c].op = calls[c].op
                  /\ calls'[c].outcome = calls'[c].reply.data
            /\ calls'[c].state = "rejected" =>
                  /\ calls[c].state = "pending"
                  /\ calls'[c].op = calls[c].op
                  /\ calls'[c].outcome =
                        IF calls'[c].reply.t = "response"
                        THEN handleError(AxiosError(RequestFailedText,
                                                    calls'[c].reply)).value
                        ELSE handleError(AxiosError(calls'[c].reply.message,
                                                    Undefined)).value

\* C16: calls in flight at the same time do not interfere: each carries the
\* URL built from its own arguments, and each settles with its own response's
\* data or error while the others stay as they are.
C16_NoInterference ==
    [] C16_OwnRequest /\ [][C16_OwnSettlement]_vars

\* Two calls were in flight together; one has resolved with its Order while the
\* other, a different operation on another id, is still in flight.
C16_Witness ==
    \E c \in CallIds, d \in CallIds :
        /\ calls[c].state = "pending"
        /\ calls[c].op = "checkOrder"
        /\ calls[c].args = Num(0)
        /\ calls[d].state = "resolved"
        /\ calls[d].op = "cancelOrder"
        /\ calls[d].outcome \in Orders
        /\ calls[d].outcome.status = "CANCELED"

\* ------------------------------------------------------------------ C17

C17_Settled(c) == calls[c].state \in {"resolved", "rejected"}

\* A settled call stays as it settled until the caller takes its result, and a
\* call settles only from being in flight.
C17_SettlesOnce ==
    \A c \in CallIds :
        /\ C17_Settled(c) => calls'[c] \in {calls[c], Idle}
        /\ (~ C17_Settled(c) /\ calls'[c].state \in {"resolved", "rejected"}) =>
              calls[c].state = "pending"

\* C17: when the transport eventually delivers a response or a failure for
\* every request, every call in flight eventually settles, resolved or
\* rejected, and a settled call never settles again.
C17_SettlesExactlyOnce ==
    /\ \A c \in CallIds : (calls[c].state = "pending") ~> C17_Settled(c)
    /\ [][C17_SettlesOnce]_vars

\* Both calls of two made together have settled, one each way.
C17_Witness ==
    \E c \in CallIds, d \in CallIds :
        /\ calls[c].state = "resolved"
        /\ calls[d].state = "rejected"
        /\ calls[c].sent = 1
        /\ calls[d].sent = 1

====
